---- MODULE Spec2Model ----
(***************************************************************************)
(* SanitizedTransaction (transaction/src/sanitized.rs): construction from  *)
(* a versioned transaction, a legacy transaction or pre-built fields,      *)
(* account-lock extraction and validation, signature verification and      *)
(* re-emission of the versioned transaction.                               *)
(*                                                                         *)
(* Rust indexes are 0-based; sequences here are 1-based, so the Rust index *)
(* i is position i + 1.  Option<T> is a sequence of length 0 or 1.         *)
(* Result<T> is a record [ok, err, val].                                   *)
(***************************************************************************)
EXTENDS Integers, Sequences, FiniteSets, TLC

\* ------------------------------------------------------------- bounds
NumKeys == 2
MaxStaticKeys == 2
MaxLoaded == 1
MaxInstructions == 2
MaxLimit == 3
NumHashes == 2

\* ---------------------------------------------------------- constants
MAX_TX_ACCOUNT_LOCKS == 128

VoteProgramId == 1

\* The vote checker accepts fewer signatures than this.
SimpleVoteSignatureLimit == 3

\* ------------------------------------------------------------ helpers
None == <<>>

Some(x) == <<x>>

Ok(v) == [ok |-> TRUE, err |-> "", val |-> v]

Err(e) == [ok |-> FALSE, err |-> e, val |-> <<>>]

SeqsUpTo(S, n) == UNION {[1..k -> S] : k \in 0..n}

Min(a, b) == IF a < b THEN a ELSE b

SaturatingSub(a, b) == IF a > b THEN a - b ELSE 0

\* --------------------------------------------------------- value sets
Keys == 1..NumKeys

Hashes == 1..NumHashes

EmptyLoaded == [writable |-> <<>>, readonly |-> <<>>]

\* A message of either wire shape; a legacy message has no lookups.
Message(version, header, keys, instructions, lookups) ==
    [version |-> version, header |-> header, account_keys |-> keys,
     instructions |-> instructions, address_table_lookups |-> lookups]

Header(nrs, nrsa, nrua) ==
    [num_required_signatures |-> nrs,
     num_readonly_signed_accounts |-> nrsa,
     num_readonly_unsigned_accounts |-> nrua]

\* ------------------------------------------- serialization and hashing
\* The bytes that are signed: the wire encoding of the underlying message,
\* field by field.  Neither the loaded addresses nor the message hash are
\* part of it.
Serialize(m) ==
    IF m.version = "Legacy"
    THEN <<m.header, m.account_keys, m.instructions>>
    ELSE <<"v0", m.header, m.account_keys, m.instructions, m.address_table_lookups>>

MessageHashOf(m) == <<"hash", Serialize(m)>>

\* --------------------------------------------------------- signatures
\* A signature names the key that produced it and the bytes it covers.
Sign(pubkey, bytes) == [pubkey |-> pubkey, bytes |-> bytes]

DefaultSignature == Sign(0, <<>>)

SignatureVerify(sig, pubkey, bytes) == sig.pubkey = pubkey /\ sig.bytes = bytes

\* ------------------------------------------------------------ sanitize
SanitizeSignaturesInner(num_required_signatures, num_static_account_keys, num_signatures) ==
    IF num_required_signatures # num_signatures THEN Err("SanitizeFailure")
    ELSE IF num_signatures > num_static_account_keys THEN Err("SanitizeFailure")
    ELSE Ok(<<>>)

MessageSanitize(m) ==
    LET n == Len(m.account_keys)
        h == m.header
    IN /\ h.num_required_signatures + h.num_readonly_unsigned_accounts <= n
       /\ h.num_readonly_signed_accounts < h.num_required_signatures
       /\ \A k \in 1..Len(m.instructions) :
              /\ m.instructions[k].program_id_index # 0
              /\ m.instructions[k].program_id_index < n
       /\ \A k \in 1..Len(m.address_table_lookups) :
              Len(m.address_table_lookups[k].writable_indexes)
                + Len(m.address_table_lookups[k].readonly_indexes) > 0

\* SanitizedVersionedTransaction::try_from, and Transaction::sanitize.
SanitizeTransaction(vtx) ==
    LET sigs == SanitizeSignaturesInner(
                    vtx.message.header.num_required_signatures,
                    Len(vtx.message.account_keys),
                    Len(vtx.signatures))
    IN IF ~sigs.ok THEN sigs
       ELSE IF ~MessageSanitize(vtx.message) THEN Err("SanitizeFailure")
       ELSE Ok(vtx)

\* ---------------------------------------------------- sanitized message
IsWritableIndex(m, i) ==
    LET h == m.header
    IN \/ i < SaturatingSub(h.num_required_signatures, h.num_readonly_signed_accounts)
       \/ /\ i >= h.num_required_signatures
          /\ i < SaturatingSub(Len(m.account_keys), h.num_readonly_unsigned_accounts)

LegacyMessageNew(m, reserved_account_keys) ==
    [variant |-> "Legacy", message |-> m, loaded_addresses |-> EmptyLoaded,
     is_writable_account_cache |->
        [i \in 1..Len(m.account_keys) |->
            IsWritableIndex(m, i - 1) /\ m.account_keys[i] \notin reserved_account_keys]]

LoadedMessageNew(m, loaded_addresses, reserved_account_keys) ==
    LET keys == m.account_keys \o loaded_addresses.writable \o loaded_addresses.readonly
        static == Len(m.account_keys)
    IN [variant |-> "V0", message |-> m, loaded_addresses |-> loaded_addresses,
        is_writable_account_cache |->
           [i \in 1..Len(keys) |->
               /\ IF i > static
                  THEN i - static <= Len(loaded_addresses.writable)
                  ELSE IsWritableIndex(m, i - 1)
               /\ keys[i] \notin reserved_account_keys]]

\* SanitizedMessage::account_keys(): static keys, then the loaded writable
\* addresses, then the loaded readonly addresses.
AccountKeys(sm) ==
    IF sm.variant = "Legacy" THEN sm.message.account_keys
    ELSE sm.message.account_keys \o sm.loaded_addresses.writable
            \o sm.loaded_addresses.readonly

IsWritable(sm, i) ==
    IF i < Len(sm.is_writable_account_cache)
    THEN sm.is_writable_account_cache[i + 1] ELSE FALSE

HasDuplicates(sm) ==
    LET keys == AccountKeys(sm)
    IN \E i \in 1..Len(keys) : \E j \in (i + 1)..Len(keys) : keys[i] = keys[j]

\* --------------------------------------------------------- vote checker
IsSimpleVoteTransaction(stx) ==
    /\ Len(stx.signatures) < SimpleVoteSignatureLimit
    /\ stx.message.version = "Legacy"
    /\ Len(stx.message.instructions) = 1
    /\ stx.message.account_keys[stx.message.instructions[1].program_id_index + 1]
          = VoteProgramId

\* -------------------------------------------------------- address loader
\* SimpleAddressLoader::Disabled and ::Enabled(loaded), and a loader that
\* fails with a given error.
LoadAddresses(address_loader, lookups) ==
    CASE address_loader.kind = "Disabled" -> Err("Disabled")
      [] address_loader.kind = "Enabled" -> Ok(address_loader.loaded)
      [] OTHER -> Err(address_loader.err)

\* ------------------------------------------------------- constructors
\* A construction result: the Result returned to the caller, and the
\* lookup lists the address loader was called with, in call order.
Built(res, loads) == [res |-> res, loads |-> loads]

SanitizedTransaction(message, message_hash, is_simple_vote_tx, signatures) ==
    [message |-> message, message_hash |-> message_hash,
     is_simple_vote_tx |-> is_simple_vote_tx, signatures |-> signatures]

\* Mutant: a failed lookup is swallowed and the message is built with no
\* loaded addresses.
TryNewOp_SwallowsLoadError(stx, message_hash, is_simple_vote_tx, address_loader, reserved_account_keys) ==
    LET m == stx.message
        loaded == LoadAddresses(address_loader, m.address_table_lookups)
    IN IF m.version = "Legacy"
       THEN Built(Ok(SanitizedTransaction(
                        LegacyMessageNew(m, reserved_account_keys),
                        message_hash, is_simple_vote_tx, stx.signatures)),
                  <<>>)
       ELSE Built(Ok(SanitizedTransaction(
                        LoadedMessageNew(m, IF loaded.ok THEN loaded.val ELSE EmptyLoaded,
                                         reserved_account_keys),
                        message_hash, is_simple_vote_tx, stx.signatures)),
                  <<m.address_table_lookups>>)

TryNewOp(stx, message_hash, is_simple_vote_tx, address_loader, reserved_account_keys) ==
    LET m == stx.message
    IN IF m.version = "Legacy"
       THEN Built(Ok(SanitizedTransaction(
                        LegacyMessageNew(m, reserved_account_keys),
                        message_hash, is_simple_vote_tx, stx.signatures)),
                  <<>>)
       ELSE LET loaded == LoadAddresses(address_loader, m.address_table_lookups)
            IN IF ~loaded.ok
               THEN Built(Err(loaded.err), <<m.address_table_lookups>>)
               ELSE Built(Ok(SanitizedTransaction(
                                LoadedMessageNew(m, loaded.val, reserved_account_keys),
                                message_hash, is_simple_vote_tx, stx.signatures)),
                          <<m.address_table_lookups>>)

\* Mutant: the caller's flag is ignored and the checker always decides.
TryCreateOp_CheckerOnly(vtx, message_hash, is_simple_vote_tx, address_loader, reserved_account_keys) ==
    LET sanitized == SanitizeTransaction(vtx)
    IN IF ~sanitized.ok THEN Built(Err(sanitized.err), <<>>)
       ELSE LET vote == IsSimpleVoteTransaction(sanitized.val)
                hash == IF message_hash.kind = "Compute"
                        THEN MessageHashOf(sanitized.val.message)
                        ELSE message_hash.hash
            IN TryNewOp(sanitized.val, hash, vote, address_loader, reserved_account_keys)

TryCreateOp(vtx, message_hash, is_simple_vote_tx, address_loader, reserved_account_keys) ==
    LET sanitized == SanitizeTransaction(vtx)
    IN IF ~sanitized.ok THEN Built(Err(sanitized.err), <<>>)
       ELSE LET vote == IF is_simple_vote_tx = None
                        THEN IsSimpleVoteTransaction(sanitized.val)
                        ELSE is_simple_vote_tx[1]
                hash == IF message_hash.kind = "Compute"
                        THEN MessageHashOf(sanitized.val.message)
                        ELSE message_hash.hash
            IN TryNewOp(sanitized.val, hash, vote, address_loader, reserved_account_keys)

TryFromLegacyTransactionOp(ltx, reserved_account_keys) ==
    LET sanitized == SanitizeTransaction(ltx)
    IN IF ~sanitized.ok THEN Built(Err(sanitized.err), <<>>)
       ELSE Built(Ok(SanitizedTransaction(
                        LegacyMessageNew(ltx.message, reserved_account_keys),
                        MessageHashOf(ltx.message), FALSE, ltx.signatures)),
                  <<>>)

\* Mutant: only too few signatures are rejected.
TryNewFromFieldsOp_AcceptsExtra(message, message_hash, is_simple_vote_tx, signatures) ==
    IF message.message.header.num_required_signatures > Len(signatures)
    THEN Built(Err("SanitizeFailure"), <<>>)
    ELSE Built(Ok(SanitizedTransaction(message, message_hash,
                                       is_simple_vote_tx, signatures)),
               <<>>)

TryNewFromFieldsOp(message, message_hash, is_simple_vote_tx, signatures) ==
    LET checked == SanitizeSignaturesInner(
                       message.message.header.num_required_signatures,
                       Len(message.message.account_keys),
                       Len(signatures))
    IN IF ~checked.ok THEN Built(Err(checked.err), <<>>)
       ELSE Built(Ok(SanitizedTransaction(message, message_hash,
                                          is_simple_vote_tx, signatures)),
                  <<>>)

\* ---------------------------------------------------------- accessors
\* &self.signatures[0]: indexing an empty Vec panics.
SignatureOp(t) ==
    IF Len(t.signatures) = 0 THEN Err("panic") ELSE Ok(t.signatures[1])

\* Mutant: a table-addressed message is re-emitted with its resolved keys.
ToVersionedTransactionOp_Resolved(t) ==
    IF t.message.variant = "V0"
    THEN [signatures |-> t.signatures,
          message |-> [t.message.message EXCEPT !.version = "V0",
                                                !.account_keys = AccountKeys(t.message),
                                                !.address_table_lookups = <<>>]]
    ELSE [signatures |-> t.signatures,
          message |-> [t.message.message EXCEPT !.version = "Legacy"]]

ToVersionedTransactionOp(t) ==
    IF t.message.variant = "V0"
    THEN [signatures |-> t.signatures,
          message |-> [t.message.message EXCEPT !.version = "V0"]]
    ELSE [signatures |-> t.signatures,
          message |-> [t.message.message EXCEPT !.version = "Legacy"]]

GetLoadedAddressesOp(t) ==
    IF t.message.variant = "Legacy" THEN EmptyLoaded
    ELSE t.message.loaded_addresses

\* ------------------------------------------------------- account locks
\* The scan of the combined key list from index `first`: each key is
\* pushed, in order, to writable when message.is_writable(i) and to readonly
\* otherwise.
LocksLoop(message, account_keys, first, account_locks) ==
    LET indexes == [k \in 1..SaturatingSub(Len(account_keys), first) |-> first + k - 1]
        w == SelectSeq(indexes, LAMBDA i : IsWritable(message, i))
        r == SelectSeq(indexes, LAMBDA i : ~IsWritable(message, i))
    IN [writable |-> account_locks.writable \o [k \in 1..Len(w) |-> account_keys[w[k] + 1]],
        readonly |-> account_locks.readonly \o [k \in 1..Len(r) |-> account_keys[r[k] + 1]]]

\* Mutant: the scan starts at the second key.
GetAccountLocksUncheckedOp_SkipsFirst(t) ==
    LocksLoop(t.message, AccountKeys(t.message), 1,
              [writable |-> <<>>, readonly |-> <<>>])

GetAccountLocksUncheckedOp(t) ==
    LocksLoop(t.message, AccountKeys(t.message), 0,
              [writable |-> <<>>, readonly |-> <<>>])

\* Mutant: the limit is checked before the duplicates.
ValidateAccountLocksOp_LimitFirst(message, tx_account_lock_limit) ==
    IF Len(AccountKeys(message)) > tx_account_lock_limit
    THEN Err("TooManyAccountLocks")
    ELSE IF HasDuplicates(message) THEN Err("AccountLoadedTwice")
    ELSE Ok(<<>>)

\* Mutant: a message with exactly limit keys is rejected.
ValidateAccountLocksOp_OffByOne(message, tx_account_lock_limit) ==
    IF HasDuplicates(message) THEN Err("AccountLoadedTwice")
    ELSE IF Len(AccountKeys(message)) >= tx_account_lock_limit
    THEN Err("TooManyAccountLocks")
    ELSE Ok(<<>>)

ValidateAccountLocksOp(message, tx_account_lock_limit) ==
    IF HasDuplicates(message) THEN Err("AccountLoadedTwice")
    ELSE IF Len(AccountKeys(message)) > tx_account_lock_limit
    THEN Err("TooManyAccountLocks")
    ELSE Ok(<<>>)

\* Mutant: the locks are returned without validation.
GetAccountLocksOp_Unvalidated(t, tx_account_lock_limit) ==
    Ok(GetAccountLocksUncheckedOp(t))

GetAccountLocksOp(t, tx_account_lock_limit) ==
    LET valid == ValidateAccountLocksOp(t.message, tx_account_lock_limit)
    IN IF ~valid.ok THEN valid ELSE Ok(GetAccountLocksUncheckedOp(t))

\* -------------------------------------------------------- verification
MessageData(t) == Serialize(t.message.message)

\* Mutant: the last zipped pair is not checked.
VerifyOp_SkipsLast(t) ==
    LET message_bytes == Serialize(t.message.message)
        keys == AccountKeys(t.message)
        zipped == Min(Len(t.signatures), Len(keys))
    IN IF \E i \in 1..(zipped - 1) :
             ~SignatureVerify(t.signatures[i], keys[i], message_bytes)
       THEN Err("SignatureFailure")
       ELSE Ok(<<>>)

VerifyOp(t) ==
    LET message_bytes == MessageData(t)
        keys == AccountKeys(t.message)
        zipped == Min(Len(t.signatures), Len(keys))
    IN IF \E i \in 1..zipped :
             ~SignatureVerify(t.signatures[i], keys[i], message_bytes)
       THEN Err("SignatureFailure")
       ELSE Ok(<<>>)

\* ---------------------------------------------------------- input sets
KeySeqs(n) == SeqsUpTo(Keys, n)

LoadedSet ==
    {[writable |-> w, readonly |-> r] :
        w \in SeqsUpTo(Keys, MaxLoaded), r \in SeqsUpTo(Keys, MaxLoaded)}

Limits ==
    (0..MaxLimit)
      \cup {MAX_TX_ACCOUNT_LOCKS - 1, MAX_TX_ACCOUNT_LOCKS, MAX_TX_ACCOUNT_LOCKS + 1}

\* Up to MaxInstructions instructions, each of the program at key index 1.
InstructionSeqs == SeqsUpTo({[program_id_index |-> 1]}, MaxInstructions)

\* No lookup, or one lookup into the table with address 1.
LookupSeqs ==
    {<<>>} \cup
    {<<[account_key |-> 1, writable_indexes |-> w, readonly_indexes |-> r]>> :
        w \in SeqsUpTo({0}, MaxLoaded), r \in SeqsUpTo({0}, MaxLoaded)}

\* Headers with up to n required signatures.
Headers(n, nrsa, nrua) ==
    {Header(a, b, c) : a \in 0..n, b \in nrsa, c \in nrua}

LegacyMessages(headers, keys, instrs) ==
    {Message("Legacy", h, k, ins, <<>>) : h \in headers, k \in keys, ins \in instrs}

V0Messages(headers, keys, instrs, lookups) ==
    {Message("V0", h, k, ins, l) :
        h \in headers, k \in keys, ins \in instrs, l \in lookups}

\* A legacy message with n distinct keys and one signer.
BigMessage(n) == Message("Legacy", Header(1, 0, 0), [i \in 1..n |-> i], <<>>, <<>>)

Loaders(loaded, errs) ==
    {[kind |-> "Disabled", loaded |-> EmptyLoaded, err |-> ""]}
      \cup {[kind |-> "Enabled", loaded |-> la, err |-> ""] : la \in loaded}
      \cup {[kind |-> "Failing", loaded |-> EmptyLoaded, err |-> e] : e \in errs}

LoaderErrors == {"LookupTableAccountNotFound", "InvalidLookupIndex"}

ReservedSets == {{}, {NumKeys}}

MessageHashes ==
    {[kind |-> "Compute", hash |-> 0]} \cup {[kind |-> "Precomputed", hash |-> h] : h \in Hashes}

\* The signature of the i-th static key over the message; past the static
\* keys there is no signer, and the signature is the default one.
GoodSig(m, i) ==
    IF i <= Len(m.account_keys) THEN Sign(m.account_keys[i], Serialize(m))
    ELSE DefaultSignature

GoodSigs(m, n) == [i \in 1..n |-> GoodSig(m, i)]

\* n signatures of which at most one is not the signer's.
SigLists(m, n) ==
    {GoodSigs(m, n)} \cup {[GoodSigs(m, n) EXCEPT ![j] = DefaultSignature] : j \in 1..n}

\* ------------------------------------------------------- state machine
VARIABLES tx, input, loads, call, res

vars == <<tx, input, loads, call, res>>

Init ==
    /\ tx = None
    /\ input = [op |-> "none"]
    /\ loads = <<>>
    /\ call = [op |-> "none"]
    /\ res = Ok(<<>>)

Fresh == tx = None /\ call.op = "none"

Construct(args, built) ==
    /\ Fresh
    /\ tx' = IF built.res.ok THEN Some(built.res.val) ELSE None
    /\ input' = args
    /\ loads' = built.loads
    /\ call' = [op |-> args.op]
    /\ res' = IF built.res.ok THEN Ok(<<>>) ELSE built.res

Query(args, result) ==
    /\ tx # None
    /\ call' = args
    /\ res' = result
    /\ UNCHANGED <<tx, input, loads>>

TryNew(stx, message_hash, is_simple_vote_tx, address_loader, reserved_account_keys) ==
    Construct([op |-> "try_new", tx |-> stx, message_hash |-> message_hash,
               is_simple_vote_tx |-> is_simple_vote_tx,
               address_loader |-> address_loader,
               reserved_account_keys |-> reserved_account_keys],
              TryNewOp(stx, message_hash, is_simple_vote_tx, address_loader,
                       reserved_account_keys))

TryCreate(vtx, message_hash, is_simple_vote_tx, address_loader, reserved_account_keys) ==
    Construct([op |-> "try_create", tx |-> vtx, message_hash |-> message_hash,
               is_simple_vote_tx |-> is_simple_vote_tx,
               address_loader |-> address_loader,
               reserved_account_keys |-> reserved_account_keys],
              TryCreateOp(vtx, message_hash, is_simple_vote_tx, address_loader,
                          reserved_account_keys))

TryFromLegacyTransaction(ltx, reserved_account_keys) ==
    Construct([op |-> "try_from_legacy_transaction", tx |-> ltx,
               reserved_account_keys |-> reserved_account_keys],
              TryFromLegacyTransactionOp(ltx, reserved_account_keys))

TryNewFromFields(message, message_hash, is_simple_vote_tx, signatures) ==
    Construct([op |-> "try_new_from_fields", message |-> message,
               message_hash |-> message_hash,
               is_simple_vote_tx |-> is_simple_vote_tx,
               signatures |-> signatures],
              TryNewFromFieldsOp(message, message_hash, is_simple_vote_tx, signatures))

Signature == Query([op |-> "signature"], SignatureOp(tx[1]))

IsSimpleVoteTransactionGet ==
    Query([op |-> "is_simple_vote_transaction"], Ok(tx[1].is_simple_vote_tx))

ToVersionedTransaction ==
    Query([op |-> "to_versioned_transaction"], Ok(ToVersionedTransactionOp(tx[1])))

GetLoadedAddresses ==
    Query([op |-> "get_loaded_addresses"], Ok(GetLoadedAddressesOp(tx[1])))

GetAccountLocks(tx_account_lock_limit) ==
    Query([op |-> "get_account_locks", limit |-> tx_account_lock_limit],
          GetAccountLocksOp(tx[1], tx_account_lock_limit))

GetAccountLocksUnchecked ==
    Query([op |-> "get_account_locks_unchecked"], Ok(GetAccountLocksUncheckedOp(tx[1])))

Verify == Query([op |-> "verify"], VerifyOp(tx[1]))

\* An associated function, called with a transaction's message.
ValidateAccountLocks(message, tx_account_lock_limit) ==
    Query([op |-> "validate_account_locks", message |-> message,
           limit |-> tx_account_lock_limit],
          ValidateAccountLocksOp(message, tx_account_lock_limit))

\* ------------------------------------------------------ specifications
\* Construction from fields, the first signature and verification.
FieldMessages ==
    {LegacyMessageNew(m, {}) :
        m \in LegacyMessages(Headers(MaxStaticKeys, {0}, {0}), KeySeqs(MaxStaticKeys), {<<>>})}
      \cup {LoadedMessageNew(m, la, {}) :
                m \in V0Messages(Headers(MaxStaticKeys, {0}, {0}), KeySeqs(MaxStaticKeys), {<<>>},
                                 {l \in LookupSeqs : Len(l) = 1 /\ Len(l[1].readonly_indexes) = 0}),
                la \in {x \in LoadedSet : x.readonly = <<>>}}

NextFields ==
    \/ Fresh /\ \E message \in FieldMessages, h \in Hashes, v \in BOOLEAN,
                    n \in 0..(MaxStaticKeys + 1) :
          \E signatures \in SigLists(message.message, n) :
             TryNewFromFields(message, h, v, signatures)
    \/ Signature
    \/ Verify

SpecFields == Init /\ [][NextFields]_vars

\* Account locks of transactions built from fields.  A table-addressed
\* message has at most its fee payer as a static key here; the other keys
\* are the loaded ones.
LockMessages ==
    {LegacyMessageNew(m, r) :
        m \in LegacyMessages(Headers(MaxStaticKeys, 0..1, 0..1), KeySeqs(MaxStaticKeys), {<<>>}),
        r \in ReservedSets}
      \cup {LoadedMessageNew(m, la, r) :
                m \in V0Messages(Headers(1, 0..1, 0..1), KeySeqs(1), {<<>>},
                                 {l \in LookupSeqs : Len(l) = 1 /\ Len(l[1].readonly_indexes) = MaxLoaded
                                                      /\ Len(l[1].writable_indexes) = MaxLoaded}),
                la \in LoadedSet, r \in ReservedSets}

BigMessages ==
    {LegacyMessageNew(BigMessage(n), {}) :
        n \in {MAX_TX_ACCOUNT_LOCKS, MAX_TX_ACCOUNT_LOCKS + 1}}

NextLocks ==
    \/ Fresh /\ \E message \in LockMessages \cup BigMessages :
          TryNewFromFields(message, 1, FALSE,
              GoodSigs(message.message, message.message.header.num_required_signatures))
    \/ \E limit \in Limits : GetAccountLocks(limit)
    \/ GetAccountLocksUnchecked
    \/ \E limit \in Limits : ValidateAccountLocks(tx[1].message, limit)

SpecLocks == Init /\ [][NextLocks]_vars

\* The vote flag of transactions built from the wire shape, with up to
\* SimpleVoteSignatureLimit signers.
VoteTransactions ==
    {[signatures |-> GoodSigs(m, m.header.num_required_signatures), message |-> m] :
        m \in LegacyMessages(Headers(SimpleVoteSignatureLimit, {0}, {0}),
                             KeySeqs(SimpleVoteSignatureLimit), InstructionSeqs)
                \cup V0Messages(Headers(SimpleVoteSignatureLimit, {0}, {0}),
                                KeySeqs(SimpleVoteSignatureLimit), InstructionSeqs, {<<>>})}

NextVote ==
    \/ Fresh /\ \E vtx \in VoteTransactions, mh \in MessageHashes,
                    vote \in {None, Some(TRUE), Some(FALSE)} :
          TryCreate(vtx, mh, vote, [kind |-> "Disabled", loaded |-> EmptyLoaded, err |-> ""], {})
    \/ IsSimpleVoteTransactionGet

SpecVote == Init /\ [][NextVote]_vars

\* Address resolution and re-emission.
WireTransactions ==
    {[signatures |-> GoodSigs(m, n), message |-> m] :
        m \in LegacyMessages(Headers(MaxStaticKeys, {0}, {0}), KeySeqs(MaxStaticKeys), {<<>>})
                \cup V0Messages(Headers(MaxStaticKeys, {0}, {0}), KeySeqs(MaxStaticKeys),
                                {<<>>}, LookupSeqs),
        n \in 0..MaxStaticKeys}

\* What SanitizedVersionedTransaction::try_from accepts.
SanitizedWireTransactions == {t \in WireTransactions : SanitizeTransaction(t).ok}

NextResolve ==
    \/ Fresh /\ \E stx \in SanitizedWireTransactions, v \in BOOLEAN,
                    loader \in Loaders(LoadedSet, LoaderErrors) :
          TryNew(stx, 1, v, loader, {})
    \/ Fresh /\ \E vtx \in WireTransactions,
                    loader \in Loaders({[writable |-> <<1>>, readonly |-> <<NumKeys>>]}, {}),
                    r \in ReservedSets :
          TryCreate(vtx, [kind |-> "Compute", hash |-> 0], None, loader, r)
    \/ Fresh /\ \E ltx \in {t \in WireTransactions : t.message.version = "Legacy"},
                    r \in ReservedSets :
          TryFromLegacyTransaction(ltx, r)
    \/ ToVersionedTransaction
    \/ GetLoadedAddresses
    \/ Signature

SpecResolve == Init /\ [][NextResolve]_vars

\* ------------------------------------------------------------- claims
\* The combined key list of a sanitized message: static keys, resolved
\* writable lookup addresses, resolved readonly lookup addresses.
CombinedKeys(sm) ==
    sm.message.account_keys \o sm.loaded_addresses.writable \o sm.loaded_addresses.readonly

Repeated(keys) == Cardinality({keys[i] : i \in 1..Len(keys)}) < Len(keys)

\* The keys at the positions in S, in increasing order of position.
PickFrom(keys, S) ==
    [k \in 1..Cardinality(S) |->
        keys[CHOOSE i \in S : Cardinality({j \in S : j <= i}) = k]]

Required(sm) == sm.message.header.num_required_signatures

\* C1 as stated: for a legacy message with num_required_signatures = N,
\* try_new_from_fields with exactly N signatures succeeds, and with N-1 or
\* N+1 signatures fails with the sanitize error.
C1_Original ==
    (call.op = "try_new_from_fields" /\ input.message.variant = "Legacy") =>
        LET N == Required(input.message)
            k == Len(input.signatures)
        IN /\ (k = N) => res.ok
           /\ (k = N - 1 \/ k = N + 1) => (~res.ok /\ res.err = "SanitizeFailure")

\* C1 amended: for a legacy message with num_required_signatures = N,
\* try_new_from_fields with exactly N signatures succeeds when N is at most
\* the number of static account keys and fails with the sanitize error when
\* N is larger; with N-1 or N+1 signatures it always fails with the sanitize
\* error.  The outcome is decided by these counts alone, whatever the
\* message hash and the vote flag.
C1_SignatureCount ==
    (call.op = "try_new_from_fields" /\ input.message.variant = "Legacy") =>
        LET N == Required(input.message)
            k == Len(input.signatures)
            fits == N <= Len(input.message.message.account_keys)
        IN /\ (k = N /\ fits) =>
                 /\ res.ok
                 /\ tx = Some(SanitizedTransaction(input.message, input.message_hash,
                                 input.is_simple_vote_tx, input.signatures))
           /\ (k = N /\ ~fits) => (~res.ok /\ res.err = "SanitizeFailure" /\ tx = None)
           /\ (k = N - 1 \/ k = N + 1) =>
                 (~res.ok /\ res.err = "SanitizeFailure" /\ tx = None)

C1_Witness ==
    /\ call.op = "try_new_from_fields"
    /\ input.message.variant = "Legacy"
    /\ Required(input.message) = MaxStaticKeys
    /\ Len(input.signatures) = MaxStaticKeys
    /\ input.message_hash = NumHashes
    /\ input.is_simple_vote_tx
    /\ res.ok

\* C2 as stated: every constructed transaction has exactly
\* num_required_signatures signatures, at least one and at most as many as
\* it has account keys, so signature() never indexes an empty list.
C2_Original ==
    (tx # None) =>
        LET t == tx[1]
        IN /\ Len(t.signatures) = Required(t.message)
           /\ 1 <= Len(t.signatures)
           /\ Len(t.signatures) <= Len(CombinedKeys(t.message))
           /\ (call.op = "signature") => res.ok

\* C3: validate_account_locks fails with AccountLoadedTwice if and only if
\* the combined key list (static, resolved writable, resolved readonly)
\* holds a repeated key, whatever the order of the keys and the limit.
C3_LoadedTwiceIffRepeated ==
    (call.op = "validate_account_locks") =>
        ((~res.ok /\ res.err = "AccountLoadedTwice")
            <=> Repeated(CombinedKeys(call.message)))

\* A repeated key that is also over the limit, the repeat reaching across
\* the static keys and the resolved addresses.
C3_Witness ==
    /\ call.op = "validate_account_locks"
    /\ call.message.variant = "V0"
    /\ ~Repeated(call.message.message.account_keys)
    /\ Repeated(CombinedKeys(call.message))
    /\ Len(CombinedKeys(call.message)) > call.limit
    /\ res.err = "AccountLoadedTwice"

\* C4 as stated: validate_account_locks fails with TooManyAccountLocks if
\* and only if the combined key count is greater than the limit.
C4_Original ==
    (call.op = "validate_account_locks") =>
        ((~res.ok /\ res.err = "TooManyAccountLocks")
            <=> Len(CombinedKeys(call.message)) > call.limit)

\* C4 amended: validate_account_locks fails with TooManyAccountLocks if and
\* only if the combined key list holds no repeated key and its length is
\* greater than the limit; with limit = 128, 128 distinct keys pass and 129
\* distinct keys fail with TooManyAccountLocks.
C4_TooManyIffOverLimit ==
    (call.op = "validate_account_locks") =>
        LET keys == CombinedKeys(call.message)
        IN /\ (~res.ok /\ res.err = "TooManyAccountLocks")
                  <=> (~Repeated(keys) /\ Len(keys) > call.limit)
           /\ (~Repeated(keys) /\ call.limit = MAX_TX_ACCOUNT_LOCKS) =>
                 /\ (Len(keys) = MAX_TX_ACCOUNT_LOCKS) => res.ok
                 /\ (Len(keys) = MAX_TX_ACCOUNT_LOCKS + 1) =>
                        (~res.ok /\ res.err = "TooManyAccountLocks")

C4_Witness ==
    /\ call.op = "validate_account_locks"
    /\ call.limit = MAX_TX_ACCOUNT_LOCKS
    /\ Len(CombinedKeys(call.message)) = MAX_TX_ACCOUNT_LOCKS + 1
    /\ ~Repeated(CombinedKeys(call.message))
    /\ res.err = "TooManyAccountLocks"

\* C5: get_account_locks_unchecked partitions the combined key list: the
\* key at index i goes to writable if and only if message.is_writable(i)
\* and to readonly otherwise, both lists keep the order of the combined
\* list, the two lengths add up to the key count, and a result is returned
\* whatever the keys (repeated, or more than any limit).
C5_LocksPartition ==
    (call.op = "get_account_locks_unchecked") =>
        LET sm == tx[1].message
            keys == CombinedKeys(sm)
            W == {i \in 1..Len(keys) : IsWritable(sm, i - 1)}
        IN /\ res.ok
           /\ res.val.writable = PickFrom(keys, W)
           /\ res.val.readonly = PickFrom(keys, (1..Len(keys)) \ W)
           /\ Len(res.val.writable) + Len(res.val.readonly) = Len(keys)

\* A message with a repeated key whose keys go to both lists.
C5_Witness ==
    /\ call.op = "get_account_locks_unchecked"
    /\ tx[1].message.variant = "V0"
    /\ Repeated(CombinedKeys(tx[1].message))
    /\ Len(res.val.writable) >= 1
    /\ Len(res.val.readonly) >= 1

\* C10: get_account_locks returns the error of validate_account_locks and
\* no lock set when validation fails; when it returns Ok, the lock set is
\* the partition of get_account_locks_unchecked, no key occurs twice in it
\* (in one list or across both), and it holds at most limit keys.
C10_LocksGate ==
    (call.op = "get_account_locks") =>
        LET sm == tx[1].message
            keys == CombinedKeys(sm)
            W == {i \in 1..Len(keys) : IsWritable(sm, i - 1)}
        IN /\ Repeated(keys) =>
                 (~res.ok /\ res.err = "AccountLoadedTwice" /\ res.val = <<>>)
           /\ (~Repeated(keys) /\ Len(keys) > call.limit) =>
                 (~res.ok /\ res.err = "TooManyAccountLocks" /\ res.val = <<>>)
           /\ res.ok =>
                 /\ res.val.writable = PickFrom(keys, W)
                 /\ res.val.readonly = PickFrom(keys, (1..Len(keys)) \ W)
                 /\ ~Repeated(res.val.writable \o res.val.readonly)
                 /\ Len(res.val.writable) + Len(res.val.readonly) <= call.limit
           /\ (~Repeated(keys) /\ Len(keys) <= call.limit) => res.ok

\* Locks granted with exactly limit keys, some writable and some readonly.
C10_Witness ==
    /\ call.op = "get_account_locks"
    /\ res.ok
    /\ Len(res.val.writable) >= 1
    /\ Len(res.val.readonly) >= 1
    /\ Len(res.val.writable) + Len(res.val.readonly) = call.limit

C7_RoundTrip ==
    (call.op = "to_versioned_transaction" /\ input.op \in {"try_new", "try_create"}) =>
        /\ res.val.signatures = input.tx.signatures
        /\ res.val.message = input.tx.message
        /\ res.val.message.account_keys = tx[1].message.message.account_keys
        /\ res.val.message.address_table_lookups = input.tx.message.address_table_lookups

\* A table-addressed transaction, two signatures, addresses loaded.
C7_Witness ==
    /\ call.op = "to_versioned_transaction"
    /\ input.op = "try_new"
    /\ input.tx.message.version = "V0"
    /\ Len(input.tx.signatures) = 2
    /\ input.tx.signatures[1] # input.tx.signatures[2]
    /\ Len(tx[1].message.loaded_addresses.writable) = 1
    /\ Len(tx[1].message.loaded_addresses.readonly) = 1
    /\ Len(res.val.message.address_table_lookups) = 1

\* C8: try_create with Some(b) builds a transaction whose
\* is_simple_vote_transaction() is b whatever the vote checker says; with
\* None it is the checker's result on the sanitized transaction.
C8_VoteOverride ==
    (input.op = "try_create" /\ tx # None) =>
        LET expected ==
                IF input.is_simple_vote_tx # None THEN input.is_simple_vote_tx[1]
                ELSE IsSimpleVoteTransaction(input.tx)
        IN /\ tx[1].is_simple_vote_tx = expected
           /\ (call.op = "is_simple_vote_transaction") => res.val = expected

\* Some(true) on a three-signature vote transaction the checker rejects.
C8_Witness ==
    /\ call.op = "is_simple_vote_transaction"
    /\ input.op = "try_create"
    /\ input.is_simple_vote_tx = Some(TRUE)
    /\ Len(input.tx.signatures) = 3
    /\ Len(input.tx.message.instructions) = 1
    /\ input.tx.message.account_keys[input.tx.message.instructions[1].program_id_index + 1]
          = VoteProgramId
    /\ ~IsSimpleVoteTransaction(input.tx)
    /\ res.val = TRUE

====
